---- MODULE Spec2Model ----
(***************************************************************************)
(* A model of the resistor solver (src/src/resistor/solver.py):            *)
(*   e_decade_table, create_table          -- the value-table generator    *)
(*   create_series_table, create_parallel_table -- the pair tables         *)
(*   find_best_resistor_config             -- scoring and ranking          *)
(*                                                                         *)
(* Numbers.  The program computes in IEEE doubles.  The model computes the *)
(* same expressions in exact rational arithmetic: a value is a record      *)
(* [neg, n, d] standing for (-1)^neg * n / d, where n and d are natural    *)
(* numbers of unbounded size kept as little-endian sequences of base-10000 *)
(* digits (TLC's own integers are 32 bits wide, and the score weight       *)
(* 1e-10 alone does not fit a product of two of them).  Rationals are not  *)
(* reduced to lowest terms: two values are compared with REq, RLess, RLeq, *)
(* never with =.                                                           *)
(***************************************************************************)
EXTENDS Integers, Naturals, Sequences, FiniteSets, TLC

(***************************************************************************)
(* Natural numbers of unbounded size.                                      *)
(***************************************************************************)
BigBase == 100 * 100

RECURSIVE BNorm(_)
BNorm(a) ==
    IF a = <<>> THEN <<>>
    ELSE IF a[Len(a)] = 0 THEN BNorm(SubSeq(a, 1, Len(a) - 1))
    ELSE a

RECURSIVE BFromNat(_)
BFromNat(k) ==
    IF k = 0 THEN <<>> ELSE <<k % BigBase>> \o BFromNat(k \div BigBase)

RECURSIVE BAddC(_, _, _)
BAddC(a, b, c) ==
    IF a = <<>> /\ b = <<>> THEN (IF c = 0 THEN <<>> ELSE <<c>>)
    ELSE LET x == IF a = <<>> THEN 0 ELSE a[1]
             y == IF b = <<>> THEN 0 ELSE b[1]
             s == x + y + c
         IN  <<s % BigBase>>
               \o BAddC(IF a = <<>> THEN <<>> ELSE Tail(a),
                        IF b = <<>> THEN <<>> ELSE Tail(b),
                        s \div BigBase)

BAdd(a, b) == BAddC(a, b, 0)

\* a - b for a >= b
RECURSIVE BSubC(_, _, _)
BSubC(a, b, c) ==
    IF a = <<>> THEN <<>>
    ELSE LET y == IF b = <<>> THEN 0 ELSE b[1]
             s == a[1] - y - c
         IN  <<IF s < 0 THEN s + BigBase ELSE s>>
               \o BSubC(Tail(a),
                        IF b = <<>> THEN <<>> ELSE Tail(b),
                        IF s < 0 THEN 1 ELSE 0)

BSub(a, b) == BNorm(BSubC(a, b, 0))

RECURSIVE BMulDigit(_, _, _)
BMulDigit(a, dg, c) ==
    IF a = <<>> THEN (IF c = 0 THEN <<>> ELSE <<c>>)
    ELSE LET s == a[1] * dg + c
         IN  <<s % BigBase>> \o BMulDigit(Tail(a), dg, s \div BigBase)

BShift(a) == IF a = <<>> THEN <<>> ELSE <<0>> \o a

RECURSIVE BMul(_, _)
BMul(a, b) ==
    IF a = <<>> \/ b = <<>> THEN <<>>
    ELSE BAdd(BNorm(BMulDigit(a, b[1], 0)), BShift(BMul(a, Tail(b))))

\* -1, 0 or 1 as a < b, a = b, a > b
RECURSIVE BCmpFrom(_, _, _)
BCmpFrom(a, b, i) ==
    IF i = 0 THEN 0
    ELSE IF a[i] < b[i] THEN -1
    ELSE IF a[i] > b[i] THEN 1
    ELSE BCmpFrom(a, b, i - 1)

BCmp(a, b) ==
    IF Len(a) < Len(b) THEN -1
    ELSE IF Len(a) > Len(b) THEN 1
    ELSE BCmpFrom(a, b, Len(a))

\* floor(a / p) and a mod p for a small p > 0
RECURSIVE BDivSmallFrom(_, _, _, _)
BDivSmallFrom(a, p, i, rem) ==
    IF i = 0 THEN <<>>
    ELSE LET cur == rem * BigBase + a[i]
         IN  BDivSmallFrom(a, p, i - 1, cur % p) \o <<cur \div p>>

BDivSmall(a, p) == BNorm(BDivSmallFrom(a, p, Len(a), 0))

RECURSIVE BModSmallFrom(_, _, _, _)
BModSmallFrom(a, p, i, rem) ==
    IF i = 0 THEN rem
    ELSE BModSmallFrom(a, p, i - 1, (rem * BigBase + a[i]) % p)

BModSmall(a, p) == BModSmallFrom(a, p, Len(a), 0)

(***************************************************************************)
(* Exact rationals: the arithmetic of the program's floats.  Every result  *)
(* is freed of the factors 10000, 2, 3, 5, 7, 11 and 13 its numerator and  *)
(* denominator share, which keeps the digits few and changes no value.     *)
(***************************************************************************)
SmallPrimes == <<2, 5, 3, 7, 11, 13>>

RECURSIVE RStripLimbs(_)
RStripLimbs(a) ==
    IF a.n # <<>> /\ a.n[1] = 0 /\ a.d[1] = 0
    THEN RStripLimbs([a EXCEPT !.n = Tail(a.n), !.d = Tail(a.d)])
    ELSE a

RECURSIVE RStripPrimes(_, _)
RStripPrimes(a, i) ==
    IF i > Len(SmallPrimes) THEN a
    ELSE IF IF BigBase % SmallPrimes[i] = 0
            THEN a.n[1] % SmallPrimes[i] = 0 /\ a.d[1] % SmallPrimes[i] = 0
            ELSE BModSmall(a.n, SmallPrimes[i]) = 0 /\ BModSmall(a.d, SmallPrimes[i]) = 0
         THEN RStripPrimes([a EXCEPT !.n = BDivSmall(a.n, SmallPrimes[i]),
                                     !.d = BDivSmall(a.d, SmallPrimes[i])], i)
         ELSE RStripPrimes(a, i + 1)

RNorm(a) ==
    IF a.n = <<>> THEN [neg |-> FALSE, n |-> <<>>, d |-> <<1>>]
    ELSE RStripPrimes(RStripLimbs(a), 1)

Rat(p, q) ==
    RNorm([neg |-> p < 0, n |-> BFromNat(IF p < 0 THEN 0 - p ELSE p), d |-> BFromNat(q)])

RZero == Rat(0, 1)

RSign(a) == IF a.n = <<>> THEN 0 ELSE IF a.neg THEN -1 ELSE 1

RNeg(a) == IF a.n = <<>> THEN a ELSE [a EXCEPT !.neg = ~a.neg]

RAbs(a) == [a EXCEPT !.neg = FALSE]

RAdd(a, b) ==
    LET same == a.d = b.d
        x == IF same THEN a.n ELSE BMul(a.n, b.d)
        y == IF same THEN b.n ELSE BMul(b.n, a.d)
        dd == IF same THEN a.d ELSE BMul(a.d, b.d)
    IN  RNorm(IF a.neg = b.neg THEN [neg |-> a.neg, n |-> BAdd(x, y), d |-> dd]
              ELSE IF BCmp(x, y) >= 0 THEN [neg |-> a.neg, n |-> BSub(x, y), d |-> dd]
              ELSE [neg |-> b.neg, n |-> BSub(y, x), d |-> dd])

RSub(a, b) == RAdd(a, RNeg(b))

RMul(a, b) ==
    RNorm([neg |-> a.neg # b.neg, n |-> BMul(a.n, b.n), d |-> BMul(a.d, b.d)])

\* a / b for b # 0
RDiv(a, b) ==
    RNorm([neg |-> a.neg # b.neg, n |-> BMul(a.n, b.d), d |-> BMul(a.d, b.n)])

\* -1, 0 or 1 as a < b, a = b, a > b
RCmp(a, b) ==
    LET sa == RSign(a)
        sb == RSign(b)
    IN  IF sa # sb THEN (IF sa < sb THEN -1 ELSE 1)
        ELSE IF sa = 0 \/ a = b THEN 0
        ELSE sa * BCmp(IF a.d = b.d THEN a.n ELSE BMul(a.n, b.d),
                       IF a.d = b.d THEN b.n ELSE BMul(b.n, a.d))

RLess(a, b) == RCmp(a, b) < 0
RLeq(a, b) == RCmp(a, b) <= 0
REq(a, b) == RCmp(a, b) = 0
RMin(a, b) == IF RLeq(a, b) THEN a ELSE b

RECURSIVE RPow10(_)
RPow10(e) == IF e = 0 THEN Rat(1, 1) ELSE RMul(Rat(10, 1), RPow10(e - 1))


RECURSIVE IPow10(_)
IPow10(e) == IF e = 0 THEN 1 ELSE 10 * IPow10(e - 1)

(***************************************************************************)
(* Bounds of the model.                                                    *)
(***************************************************************************)
\* rows of a base table handed to the pair tables and to the solver
MaxRows == 2
\* the largest number of results asked for; n ranges over -MaxNeg..MaxCount
MaxCount == 3
MaxNeg == 2
\* significant figures asked of e_decade_table: 1..MaxPrecision
MaxPrecision == 4
\* decade index asked of e_decade_table: 1..MaxDecade
MaxDecade == 2
\* decades asked of create_table: 0..MaxDecades
MaxDecades == 2

(***************************************************************************)
(* The value-table generator.                                              *)
(***************************************************************************)
\* _IEC_E_VALUES, in tenths
_IEC_E_VALUES ==
    (6 :> <<10, 15, 22, 33, 47, 68>>)
 @@ (12 :> <<10, 12, 15, 18, 22, 27, 33, 39, 47, 56, 68, 82>>)
 @@ (24 :> <<10, 11, 12, 13, 15, 16, 18, 20, 22, 24, 27, 30,
             33, 36, 39, 43, 47, 51, 56, 62, 68, 75, 82, 91>>)

\* floor(10^(j/192) * 10^8) for j = 0..191: the library function 10.0 ** x at
\* the exponents k/es the program asks for, to nine significant figures.
Pow10Tab ==
    <<
       100000000, 101206483, 102427522, 103663292, 104913972, 106179742, 107460782, 108757278,
       110069417, 111397385, 112741376, 114101582, 115478198, 116871423, 118281457, 119708503,
       121152765, 122614453, 124093776, 125590946, 127106179, 128639694, 130191710, 131762451,
       133352143, 134961014, 136589296, 138237222, 139905031, 141592961, 143301257, 145030162,
       146779926, 148550801, 150343041, 152156905, 153992652, 155850547, 157730858, 159633854,
       161559809, 163509001, 165481709, 167478218, 169498815, 171543789, 173613436, 175708053,
       177827941, 179973404, 182144753, 184342299, 186566357, 188817249, 191095297, 193400829,
       195734178, 198095677, 200485668, 202904494, 205352502, 207830045, 210337480, 212875166,
       215443469, 218042757, 220673406, 223335794, 226030302, 228757320, 231517238, 234310454,
       237137370, 239998392, 242893932, 245824406, 248790236, 251791848, 254829674, 257904151,
       261015721, 264164832, 267351935, 270577491, 273841963, 277145820, 280489537, 283873596,
       287298483, 290764690, 294272717, 297823068, 301416252, 305052789, 308733199, 312458013,
       316227766, 320043000, 323904265, 327812115, 331767112, 335769826, 339820832, 343920713,
       348070058, 352269465, 356519536, 360820884, 365174127, 369579891, 374038810, 378551524,
       383118684, 387740946, 392418975, 397153444, 401945033, 406794432, 411702338, 416669457,
       421696503, 426784200, 431933279, 437144481, 442418555, 447756260, 453158363, 458625642,
       464158883, 469758881, 475426443, 481162382, 486967525, 492842705, 498788769, 504806571,
       510896977, 517060862, 523299114, 529612629, 536002316, 542469093, 549013891, 555637651,
       562341325, 569125878, 575992285, 582941534, 589974625, 597092569, 604296390, 611587123,
       618965818, 626433536, 633991351, 641640349, 649381631, 657216310, 665145514, 673170382,
       681292069, 689511742, 697830584, 706249792, 714770576, 723394162, 732121790, 740954716,
       749894209, 758941555, 768098057, 777365030, 786743807, 796235738, 805842187, 815564537,
       825404185, 835362546, 845441054, 855641157, 865964323, 876412036, 886985799, 897687132,
       908517575, 919478686, 930572040, 941799234, 953161883, 964661619, 976300098, 988078994
    >>

\* The steps per decade the table resolves: 10.0 ** (k / es) is tabulated for
\* every es that divides it.
TabSteps == Len(Pow10Tab)

\* 10.0 ** (k / es), times 10^8, rounded down
Pow10Frac(k, es) == Pow10Tab[k * (TabSteps \div es) + 1]

\* RoundScaled with one significant figure too few (scales a power of ten short)
RoundScaledShort(k, es, precision) ==
    10 * ((Pow10Frac(k, es) + 5 * IPow10(9 - precision)) \div IPow10(10 - precision))

\* np.round(values * scales) for a value 10^(k/es) * 10^(decade-1), whose order
\* is decade - 1: the nearest integer to 10^(k/es) * 10^(precision-1).  No value
\* of the table is half-way between two integers, so the rounding mode of ties
\* does not matter.
RoundScaled(k, es, precision) ==
    (Pow10Frac(k, es) + 5 * IPow10(8 - precision)) \div IPow10(9 - precision)

\* rounded = np.round(values * scales) / scales, scales = 10^(precision-1-order)
RoundedValue(k, es, precision, decade) ==
    RDiv(RMul(Rat(RoundScaled(k, es, precision), 1), RPow10(decade - 1)),
         RPow10(precision - 1))

RECURSIVE IecFrom(_, _, _)
IecFrom(es, decade, i) ==
    IF i > Len(_IEC_E_VALUES[es]) THEN <<>>
    ELSE <<RMul(Rat(_IEC_E_VALUES[es][i], 10), RPow10(decade - 1))>>
           \o IecFrom(es, decade, i + 1)

RECURSIVE FormulaFrom(_, _, _, _)
FormulaFrom(es, precision, decade, k) ==
    IF k >= es THEN <<>>
    ELSE <<RoundedValue(k, es, precision, decade)>>
           \o FormulaFrom(es, precision, decade, k + 1)

\* e_decade_table(es, precision, decade), for decade >= 1, 1 <= precision <= 8
\* and an es that divides TabSteps (or es <= 0, where np.arange(es) is empty)
e_decade_table(es, precision, decade) ==
    IF es \in DOMAIN _IEC_E_VALUES THEN IecFrom(es, decade, 1)
    ELSE FormulaFrom(es, precision, decade, 0)

\* one row [lo, nominal, hi] of create_table
ToleranceRow(nominal, tolerance) ==
    [lo  |-> RMul(nominal, RSub(Rat(1, 1), tolerance)),
     nom |-> nominal,
     hi  |-> RMul(nominal, RAdd(Rat(1, 1), tolerance))]

RECURSIVE ToleranceRows(_, _)
ToleranceRows(nominals, tolerance) ==
    IF nominals = <<>> THEN <<>>
    ELSE <<ToleranceRow(Head(nominals), tolerance)>>
           \o ToleranceRows(Tail(nominals), tolerance)

\* np.concatenate of the decades d..decades
RECURSIVE ConcatDecades(_, _, _, _)
ConcatDecades(es, precision, d, decades) ==
    IF d > decades THEN <<>>
    ELSE e_decade_table(es, precision, d) \o ConcatDecades(es, precision, d + 1, decades)

\* create_table(es, precision, decades, tolerance) for decades >= 1
create_table(es, precision, decades, tolerance) ==
    ToleranceRows(ConcatDecades(es, precision, 1, decades), tolerance)

(***************************************************************************)
(* The pair tables.  Indices are the program's own, counted from 0.        *)
(***************************************************************************)
\* Harmonic with r1 written for r2 in the sum
HarmonicSlip(r1, r2) == RDiv(RMul(r1, r2), RAdd(r1, r1))

\* r1 * r2 / (r1 + r2), the expression of lines 93-95
Harmonic(r1, r2) == RDiv(RMul(r1, r2), RAdd(r1, r2))

\* MeshPairs with only the pairs i <= j
RECURSIVE MeshPairsUpper(_, _)
MeshPairsUpper(len, r) ==
    IF r >= len * len THEN <<>>
    ELSE (IF r \div len <= r % len THEN <<<<r \div len, r % len>>>> ELSE <<>>)
           \o MeshPairsUpper(len, r + 1)

\* the index pairs of np.meshgrid(arange(n), arange(n), indexing='ij') after
\* ravel(): row r (from 0) holds (r div n, r mod n)
RECURSIVE MeshPairs(_, _)
MeshPairs(len, r) ==
    IF r >= len * len THEN <<>>
    ELSE <<<<r \div len, r % len>>>> \o MeshPairs(len, r + 1)

SeriesRow(base, i, j) ==
    [lo   |-> RAdd(base[i + 1].lo, base[j + 1].lo),
     nom  |-> RAdd(base[i + 1].nom, base[j + 1].nom),
     hi   |-> RAdd(base[i + 1].hi, base[j + 1].hi),
     idx1 |-> i, idx2 |-> j]

ParallelRow(base, i, j) ==
    [lo   |-> Harmonic(base[i + 1].lo, base[j + 1].lo),
     nom  |-> Harmonic(base[i + 1].nom, base[j + 1].nom),
     hi   |-> Harmonic(base[i + 1].hi, base[j + 1].hi),
     idx1 |-> i, idx2 |-> j]

RECURSIVE SeriesRows(_, _)
SeriesRows(base, pairs) ==
    IF pairs = <<>> THEN <<>>
    ELSE <<SeriesRow(base, Head(pairs)[1], Head(pairs)[2])>>
           \o SeriesRows(base, Tail(pairs))

RECURSIVE ParallelRows(_, _)
ParallelRows(base, pairs) ==
    IF pairs = <<>> THEN <<>>
    ELSE <<ParallelRow(base, Head(pairs)[1], Head(pairs)[2])>>
           \o ParallelRows(base, Tail(pairs))

create_series_table(base) == SeriesRows(base, MeshPairs(Len(base), 0))

create_parallel_table(base) == ParallelRows(base, MeshPairs(Len(base), 0))

(***************************************************************************)
(* The scoring engine.                                                     *)
(***************************************************************************)
\* the weight 1e-10 of line 128
TieBreakWeight == RDiv(Rat(1, 1), RPow10(10))

\* dist of get_score: 0 inside [lo, hi], else the distance to the nearer edge
\* over the nominal
DistanceTerm(tgt, lo, nom, hi) ==
    IF RLeq(lo, tgt) /\ RLeq(tgt, hi) THEN RZero
    ELSE RDiv(RMin(RAbs(RSub(tgt, lo)), RAbs(RSub(tgt, hi))), nom)

\* RelErr without the division by the nominal
RelErrAbsolute(tgt, nom) == RAbs(RSub(tgt, nom))

\* rel_err of get_score
RelErr(tgt, nom) == RDiv(RAbs(RSub(tgt, nom)), nom)

get_score(tgt, lo, nom, hi) ==
    RAdd(DistanceTerm(tgt, lo, nom, hi), RMul(TieBreakWeight, RelErr(tgt, nom)))

RECURSIVE Scores(_, _)
Scores(tgt, table) ==
    IF table = <<>> THEN <<>>
    ELSE <<get_score(tgt, Head(table).lo, Head(table).nom, Head(table).hi)>>
           \o Scores(tgt, Tail(table))

\* the length of seq[:k] for a sequence of length len (Python slicing: a
\* negative k counts from the end)
SliceLen(len, k) ==
    IF k >= 0 THEN (IF k < len THEN k ELSE len)
    ELSE (IF len + k > 0 THEN len + k ELSE 0)

Slice(seq, k) == SubSeq(seq, 1, SliceLen(Len(seq), k))

\* The possible values of np.argsort(sc)[:k], as sequences of indices from 0.
\* np.argsort's default sort is not stable: equal scores may come out in any
\* order, so every order of a tie is an outcome.
\* the least of the scores at the indices in left (a non-empty set)
RECURSIVE LeastScore(_, _)
LeastScore(sc, left) ==
    LET i == CHOOSE j \in left : TRUE
    IN  IF left = {i} THEN sc[i + 1]
        ELSE RMin(sc[i + 1], LeastScore(sc, left \ {i}))

RECURSIVE ArgsortFrom(_, _, _)
ArgsortFrom(sc, left, m) ==
    IF m = 0 THEN {<<>>}
    ELSE LET least == LeastScore(sc, left)
         IN  UNION { { <<i>> \o rest : rest \in ArgsortFrom(sc, left \ {i}, m - 1) } :
                     i \in { j \in left : REq(sc[j + 1], least) } }

ArgsortSlice(sc, k) == ArgsortFrom(sc, 0 .. (Len(sc) - 1), SliceLen(Len(sc), k))

\* SortedPair without the sort: the pair in the order of the row's indices
PairAsIndexed(r1, r2) == <<r1, r2>>

\* sorted([r1, r2])
SortedPair(r1, r2) == IF RLeq(r1, r2) THEN <<r1, r2>> ELSE <<r2, r1>>

\* The record appended for row i of a table.  "row" is the loop variable i of
\* lines 136, 152 and 171; the program's dict does not keep it, the model does,
\* to tell which row an entry came from.  The two derived percentages
\* lower_tol_pct and upper_tol_pct are left out: nothing reads them.
SingleCandidate(base, sc, i) ==
    [config    |-> "single",
     resistors |-> <<base[i + 1].nom>>,
     nominal   |-> base[i + 1].nom,
     lo        |-> base[i + 1].lo,
     hi        |-> base[i + 1].hi,
     score     |-> sc[i + 1],
     row       |-> i]

PairCandidate(kind, base, table, sc, i) ==
    [config    |-> kind,
     resistors |-> SortedPair(base[table[i + 1].idx1 + 1].nom,
                              base[table[i + 1].idx2 + 1].nom),
     nominal   |-> table[i + 1].nom,
     lo        |-> table[i + 1].lo,
     hi        |-> table[i + 1].hi,
     score     |-> sc[i + 1],
     row       |-> i]

RECURSIVE SingleCandidates(_, _, _)
SingleCandidates(base, sc, best) ==
    IF best = <<>> THEN <<>>
    ELSE <<SingleCandidate(base, sc, Head(best))>>
           \o SingleCandidates(base, sc, Tail(best))

RECURSIVE PairCandidates(_, _, _, _, _)
PairCandidates(kind, base, table, sc, best) ==
    IF best = <<>> THEN <<>>
    ELSE <<PairCandidate(kind, base, table, sc, Head(best))>>
           \o PairCandidates(kind, base, table, sc, Tail(best))

\* Put c behind the last entry whose score is not greater than its own: the
\* entries of equal score keep their order, as list.sort (a stable sort) has it.
RECURSIVE InsertByScore(_, _)
InsertByScore(sorted, c) ==
    IF sorted = <<>> THEN <<c>>
    ELSE IF RLeq(sorted[Len(sorted)].score, c.score) THEN Append(sorted, c)
    ELSE Append(InsertByScore(SubSeq(sorted, 1, Len(sorted) - 1), c),
                sorted[Len(sorted)])

RECURSIVE SortFrom(_, _)
SortFrom(sorted, rest) ==
    IF rest = <<>> THEN sorted
    ELSE SortFrom(InsertByScore(sorted, Head(rest)), Tail(rest))

\* SortByScore with the sort left out
SortByScoreSkipped(candidates) == candidates

\* candidates.sort(key=lambda x: x["score"])
SortByScore(candidates) == SortFrom(<<>>, candidates)

\* BestIndices without the argsort: the first k rows in table order
BestIndicesInTableOrder(sc, k) ==
    { [i \in 1 .. SliceLen(Len(sc), k) |-> i - 1] }

\* BestIndices one row short: np.argsort(score)[:k - 1]
BestIndicesOneShort(sc, k) == ArgsortSlice(sc, k - 1)

\* the rows each category hands on: np.argsort(score)[:k]
BestIndices(sc, k) == ArgsortSlice(sc, k)

\* candidates[:k]
Truncate(candidates, k) == Slice(candidates, k)

\* The lists find_best_resistor_config(target, base, series, parallel, k) can
\* return: one per outcome of the three argsorts.
find_best_resistor_config(tgt, base, series, parallel, k) ==
    LET score_single == Scores(tgt, base)
        score_series == Scores(tgt, series)
        score_parallel == Scores(tgt, parallel)
    IN  { Truncate(SortByScore(
                     SingleCandidates(base, score_single, best_single_idx)
                  \o PairCandidates("series", base, series, score_series,
                                    best_series_idx)
                  \o PairCandidates("parallel", base, parallel, score_parallel,
                                    best_parallel_idx)), k) :
            best_single_idx \in BestIndices(score_single, k),
            best_series_idx \in BestIndices(score_series, k),
            best_parallel_idx \in BestIndices(score_parallel, k) }

(***************************************************************************)
(* State.                                                                  *)
(***************************************************************************)
VARIABLES
    pc,             \* where the caller is
    es, precision, decade, decades, tolerance,   \* arguments of the generator
    decade_values,  \* what e_decade_table returned
    base_table,     \* what create_table returned / the solver's base table
    series_table,   \* what create_series_table returned
    parallel_table, \* what create_parallel_table returned
    target, n,      \* arguments of find_best_resistor_config
    result,         \* what find_best_resistor_config returned
    error           \* the exception a call ended in, "none" when it returned

vars == <<pc, es, precision, decade, decades, tolerance, decade_values,
          base_table, series_table, parallel_table, target, n, result, error>>

genArgs == <<es, precision, decade, decades, tolerance>>

(***************************************************************************)
(* Inputs.                                                                 *)
(***************************************************************************)
\* rows a base table is made of: nominal values with their tolerance
InputRows ==
    { ToleranceRow(Rat(104, 1), Rat(5, 100)),
      ToleranceRow(Rat(99, 1), Rat(1, 100)),
      ToleranceRow(Rat(110, 1), Rat(10, 100)) }

\* base tables: up to MaxRows different rows, in any order
BaseTables ==
    UNION { { s \in [1 .. k -> InputRows] :
                \A i, j \in 1 .. k : i # j => s[i] # s[j] } : k \in 0 .. MaxRows }

\* 99.99 + 1e-10: just above the upper edge of 99 +- 1%
JustAbove == RAdd(Rat(9999, 100), RDiv(Rat(1, 1), RPow10(10)))

InputTargets ==
    { Rat(20549, 100), JustAbove, Rat(50, 1), Rat(0, 1), Rat(-5, 1) }

InputCounts == (0 - MaxNeg) .. MaxCount

\* series numbers asked of the generator: the six supported ones and three
\* others
InputSeries == {6, 12, 24, 48, 96, 192, 3, 4, 0}

InputTolerances == { Rat(1, 100), Rat(5, 100) }

(***************************************************************************)
(* The solver: the calls of cli.main after the base table is there.        *)
(***************************************************************************)
Init ==
    /\ pc = "base"
    /\ base_table \in BaseTables
    /\ target \in InputTargets
    /\ n \in InputCounts
    /\ series_table = <<>>
    /\ parallel_table = <<>>
    /\ result = <<>>
    /\ error = "none"
    /\ es = 96 /\ precision = 3 /\ decade = 1 /\ decades = 6
    /\ tolerance = Rat(1, 100)
    /\ decade_values = <<>>

CallCreateSeriesTable ==
    /\ pc = "base"
    /\ series_table' = create_series_table(base_table)
    /\ pc' = "series"
    /\ UNCHANGED <<genArgs, decade_values, base_table, parallel_table, target, n,
                   result, error>>

CallCreateParallelTable ==
    /\ pc = "series"
    /\ parallel_table' = create_parallel_table(base_table)
    /\ pc' = "tables"
    /\ UNCHANGED <<genArgs, decade_values, base_table, series_table, target, n,
                   result, error>>

CallFindBest ==
    /\ pc = "tables"
    /\ result' \in find_best_resistor_config(target, base_table, series_table,
                                             parallel_table, n)
    /\ pc' = "done"
    /\ UNCHANGED <<genArgs, decade_values, base_table, series_table,
                   parallel_table, target, n, error>>

Next ==
    \/ CallCreateSeriesTable
    \/ CallCreateParallelTable
    \/ CallFindBest

Spec == Init /\ [][Next]_vars

(***************************************************************************)
(* The generator: e_decade_table and create_table on their own.            *)
(***************************************************************************)
InitTable ==
    /\ pc = "start"
    /\ es \in InputSeries
    /\ precision \in 1 .. MaxPrecision
    /\ decade \in 1 .. MaxDecade
    /\ decades \in 0 .. MaxDecades
    /\ tolerance \in InputTolerances
    /\ decade_values = <<>>
    /\ base_table = <<>>
    /\ series_table = <<>>
    /\ parallel_table = <<>>
    /\ target = Rat(100, 1)
    /\ n = 3
    /\ result = <<>>
    /\ error = "none"

CallEDecadeTable ==
    /\ pc = "start"
    /\ decade_values' = e_decade_table(es, precision, decade)
    /\ pc' = "decade"
    /\ UNCHANGED <<genArgs, base_table, series_table, parallel_table, target, n,
                   result, error>>

\* np.concatenate of an empty list raises ValueError
CallCreateTable ==
    /\ pc = "start"
    /\ IF decades >= 1
       THEN /\ base_table' = create_table(es, precision, decades, tolerance)
            /\ pc' = "table"
            /\ error' = error
       ELSE /\ base_table' = base_table
            /\ pc' = "failed"
            /\ error' = "ValueError"
    /\ UNCHANGED <<genArgs, decade_values, series_table, parallel_table, target,
                   n, result>>

NextTable ==
    \/ CallEDecadeTable
    \/ CallCreateTable

SpecTable == InitTable /\ [][NextTable]_vars

(***************************************************************************)
(* What the properties below speak of.                                     *)
(***************************************************************************)
Returned == pc = "done"

TablesBuilt == pc \in {"tables", "done"}

PositiveTarget == RSign(target) > 0

RowCount == Len(base_table) + Len(series_table) + Len(parallel_table)

\* every row of the three tables with its category, its place (from 0), its
\* distance term, its relative and absolute error and its score
Scored(kind, i, r) ==
    [config |-> kind, row |-> i, nom |-> r.nom,
     dist   |-> DistanceTerm(target, r.lo, r.nom, r.hi),
     rel    |-> RDiv(RAbs(RSub(target, r.nom)), r.nom),
     abs    |-> RAbs(RSub(target, r.nom)),
     score  |-> get_score(target, r.lo, r.nom, r.hi)]

AllScored ==
    { Scored("single", i - 1, base_table[i]) : i \in 1 .. Len(base_table) }
      \cup { Scored("series", i - 1, series_table[i]) : i \in 1 .. Len(series_table) }
      \cup { Scored("parallel", i - 1, parallel_table[i]) : i \in 1 .. Len(parallel_table) }

\* the table a returned entry came from
TableOf(entry) ==
    IF entry.config = "single" THEN base_table
    ELSE IF entry.config = "series" THEN series_table
    ELSE parallel_table

\* the unordered pair of base-table indices of a returned pair entry
IndexPair(entry) ==
    {TableOf(entry)[entry.row + 1].idx1, TableOf(entry)[entry.row + 1].idx2}

\* the place of row c in the result, 0 when it is not there
PlaceOf(c) ==
    IF \E p \in 1 .. Len(result) : result[p].config = c.config /\ result[p].row = c.row
    THEN CHOOSE p \in 1 .. Len(result) :
             result[p].config = c.config /\ result[p].row = c.row
    ELSE 0

StrictlyIncreasing(seq) ==
    \A i \in 1 .. Len(seq) - 1 : RLess(seq[i], seq[i + 1])

NonDecreasing(seq) ==
    \A i \in 1 .. Len(seq) - 1 : RLeq(seq[i], seq[i + 1])

SupportedSeries == {6, 12, 24, 48, 96, 192}

(***************************************************************************)
(* C1.  For a target > 0 and n >= 0, the list find_best_resistor_config    *)
(* returns has at most n entries and its scores never decrease from one    *)
(* entry to the next.                                                      *)
(***************************************************************************)
C1_AtMostNAscending ==
    (Returned /\ PositiveTarget /\ n >= 0) =>
        /\ Len(result) <= n
        /\ \A i \in 1 .. Len(result) - 1 : RLeq(result[i].score, result[i + 1].score)

\* three entries returned, of more than one category, the last scoring
\* strictly more than the first
C1_Witness ==
    /\ Returned /\ PositiveTarget /\ n = 3 /\ Len(result) = 3
    /\ RLess(result[1].score, result[3].score)
    /\ result[1].config # result[3].config

(***************************************************************************)
(* C2.  For n >= 1, when the three tables hold at least n rows together,   *)
(* exactly n entries are returned.                                         *)
(***************************************************************************)
C2_ExactlyN ==
    (Returned /\ n >= 1 /\ RowCount >= n) => Len(result) = n

\* n = 3 asked of three one-row tables: no category alone has n rows
C2_Witness ==
    /\ Returned /\ n = 3 /\ Len(base_table) = 1 /\ RowCount = 3
    /\ Len(result) = 3

(***************************************************************************)
(* C3.  For n <= 0 the returned list is empty and no error is raised.      *)
(* (The claim as made; the program returns entries for a negative n.)      *)
(***************************************************************************)
C3_EmptyForNonPositiveN ==
    (Returned /\ PositiveTarget /\ n <= 0) => (result = <<>> /\ error = "none")

(***************************************************************************)
(* C4.  For a target <= 0 the call fails with InvalidTargetError and       *)
(* returns no entry.  (The claim as made; the program checks no target.)   *)
(***************************************************************************)
C4_NonPositiveTargetFails ==
    (Returned /\ ~PositiveTarget /\ n >= 1 /\ RowCount >= 1) =>
        (error = "InvalidTargetError" /\ result = <<>>)

(***************************************************************************)
(* C5.  No two returned entries are the same physical configuration: the   *)
(* same kind (series or parallel) with the same unordered pair of          *)
(* base-table indices.  (The claim as made; the program returns both       *)
(* (i, j) and (j, i).)                                                     *)
(***************************************************************************)
C5_NoConfigurationTwice ==
    (Returned /\ PositiveTarget /\ n >= 1) =>
        \A p, q \in 1 .. Len(result) :
            (p < q /\ result[p].config # "single"
                   /\ result[p].config = result[q].config)
                => IndexPair(result[p]) # IndexPair(result[q])

(***************************************************************************)
(* C6.  As amended: for a base table of N rows, the series table and the   *)
(* parallel table each hold exactly one record for every ordered pair      *)
(* (i, j), 0 <= i, j < N, the pairs with i > j included: N * N rows, the   *)
(* pair (i, j) in row i * N + j.                                           *)
(***************************************************************************)
FullGrid(table) ==
    /\ Len(table) = Len(base_table) * Len(base_table)
    /\ \A i, j \in 0 .. Len(base_table) - 1 :
          /\ table[i * Len(base_table) + j + 1].idx1 = i
          /\ table[i * Len(base_table) + j + 1].idx2 = j
          /\ Cardinality({ r \in 1 .. Len(table) :
                             table[r].idx1 = i /\ table[r].idx2 = j }) = 1

C6_EveryOrderedPairOnce ==
    TablesBuilt => (FullGrid(series_table) /\ FullGrid(parallel_table))

\* two base rows: four rows in each table, one of them with i > j
C6_Witness ==
    /\ TablesBuilt /\ Len(base_table) = 2
    /\ Len(series_table) = 4 /\ Len(parallel_table) = 4
    /\ \E r \in 1 .. 4 : series_table[r].idx1 > series_table[r].idx2

\* C6 as made: one record for every pair i <= j, none with i > j,
\* N (N + 1) / 2 rows
HalfGrid(table) ==
    /\ Len(table) = (Len(base_table) * (Len(base_table) + 1)) \div 2
    /\ \A r \in 1 .. Len(table) : table[r].idx1 <= table[r].idx2
    /\ \A i, j \in 0 .. Len(base_table) - 1 :
          i <= j => Cardinality({ r \in 1 .. Len(table) :
                                    table[r].idx1 = i /\ table[r].idx2 = j }) = 1

C6_OnlyPairsUpToOrder ==
    TablesBuilt => (HalfGrid(series_table) /\ HalfGrid(parallel_table))

(***************************************************************************)
(* C7.  Every record of the parallel table, with r1 and r2 the base        *)
(* nominals at its two indices: nominal * (r1 + r2) = r1 * r2; nominal is  *)
(* below min(r1, r2) when r1 # r2 and is r1 / 2 when r1 = r2; lo and hi    *)
(* obey the same formula on the two lo and the two hi values.              *)
(***************************************************************************)
IsHarmonic(v, a, b) == REq(RMul(v, RAdd(a, b)), RMul(a, b))

C7_ParallelRecords ==
    TablesBuilt =>
        \A r \in 1 .. Len(parallel_table) :
            LET rec == parallel_table[r]
                b1 == base_table[rec.idx1 + 1]
                b2 == base_table[rec.idx2 + 1]
            IN  /\ IsHarmonic(rec.nom, b1.nom, b2.nom)
                /\ IsHarmonic(rec.lo, b1.lo, b2.lo)
                /\ IsHarmonic(rec.hi, b1.hi, b2.hi)
                /\ ~REq(b1.nom, b2.nom) => RLess(rec.nom, RMin(b1.nom, b2.nom))
                /\ REq(b1.nom, b2.nom) => REq(RMul(Rat(2, 1), rec.nom), b1.nom)

\* a parallel table with a record of two different resistors and a record of
\* twice the same one
C7_Witness ==
    /\ TablesBuilt
    /\ \E r \in 1 .. Len(parallel_table) :
          ~REq(base_table[parallel_table[r].idx1 + 1].nom,
               base_table[parallel_table[r].idx2 + 1].nom)
    /\ \E r \in 1 .. Len(parallel_table) :
          parallel_table[r].idx1 = parallel_table[r].idx2

(***************************************************************************)
(* C8.  Of any two rows scored against the same target, the one with the   *)
(* smaller distance term has the smaller score: the tie-break term never   *)
(* reverses the order the distance term fixes.  (The claim as made; a row  *)
(* that holds the target but lies far from it can score above a row just   *)
(* outside it.)                                                            *)
(***************************************************************************)
C8_TieBreakNeverReverses ==
    (Returned /\ PositiveTarget /\ n >= 1) =>
        \A a, b \in AllScored :
            RLess(a.dist, b.dist) => RLess(a.score, b.score)

(***************************************************************************)
(* C9.  As amended: among rows with the same distance term, the one with   *)
(* the smaller relative error |target - nominal| / nominal is ranked       *)
(* first: whenever a row is returned, every row of any table with the same *)
(* distance term and a smaller relative error is returned before it        *)
(* (n >= 0).                                                               *)
(***************************************************************************)
C9_SmallerRelativeErrorFirst ==
    (Returned /\ PositiveTarget /\ n >= 0) =>
        \A a, b \in AllScored :
            (REq(a.dist, b.dist) /\ RLess(a.rel, b.rel) /\ PlaceOf(b) > 0)
                => (PlaceOf(a) > 0 /\ PlaceOf(a) < PlaceOf(b))

\* two rows that hold the target are returned, the first farther from the
\* target in ohms than the second, and nearer in proportion to its nominal
C9_Witness ==
    /\ Returned /\ PositiveTarget /\ n >= 2
    /\ \E a, b \in AllScored :
          /\ RSign(a.dist) = 0 /\ RSign(b.dist) = 0
          /\ RLess(a.rel, b.rel) /\ RLess(b.abs, a.abs)
          /\ PlaceOf(a) > 0 /\ PlaceOf(a) < PlaceOf(b)

\* C9 as made: with the same distance term, the smaller |target - nominal|
\* is ranked first
C9_SmallerAbsoluteErrorFirst ==
    (Returned /\ PositiveTarget /\ n >= 0) =>
        \A a, b \in AllScored :
            (REq(a.dist, b.dist) /\ RLess(a.abs, b.abs) /\ PlaceOf(b) > 0)
                => (PlaceOf(a) > 0 /\ PlaceOf(a) < PlaceOf(b))

(***************************************************************************)
(* C10.  As amended: for a series number in {6, 12, 24, 48, 96, 192} and   *)
(* a decade >= 1, e_decade_table returns exactly that many values, never   *)
(* decreasing; they are strictly increasing for 6, 12 and 24 at every      *)
(* precision >= 1 and for 48, 96 and 192 at every precision >= 3.          *)
(***************************************************************************)
C10_IncreasingFromThreeFigures ==
    (pc = "decade" /\ es \in SupportedSeries) =>
        /\ Len(decade_values) = es
        /\ NonDecreasing(decade_values)
        /\ (es \in DOMAIN _IEC_E_VALUES \/ precision >= 3)
              => StrictlyIncreasing(decade_values)

\* the densest series at three significant figures
C10_Witness ==
    /\ pc = "decade" /\ es = 192 /\ precision = 3
    /\ Len(decade_values) = 192
    /\ StrictlyIncreasing(decade_values)

\* C10 as made: strictly increasing at every precision >= 1
C10_AlwaysStrictlyIncreasing ==
    (pc = "decade" /\ es \in SupportedSeries /\ precision >= 1 /\ decade >= 1) =>
        (Len(decade_values) = es /\ StrictlyIncreasing(decade_values))

(***************************************************************************)
(* C11.  For every series number outside {6, 12, 24, 48, 96, 192},         *)
(* e_decade_table and create_table fail with InvalidSeriesError and        *)
(* return no values.  Stated for a series number >= 1 and, for             *)
(* create_table, at least one decade, so that nothing else is wrong with   *)
(* the call.                                                               *)
(***************************************************************************)
C11_UnsupportedSeriesFails ==
    (pc # "start" /\ es \notin SupportedSeries /\ es >= 1 /\ decades >= 1) =>
        /\ pc = "failed"
        /\ error = "InvalidSeriesError"
        /\ decade_values = <<>>
        /\ base_table = <<>>

(***************************************************************************)
(* C12.  The two-phase selection loses nothing: for a target > 0 and       *)
(* n >= 0 the scores returned are the min(n, all rows) smallest scores     *)
(* over the rows of the three tables, each as often as it occurs there,    *)
(* and no row left out scores strictly lower than a returned one.          *)
(***************************************************************************)
\* the rows of the three tables scoring strictly less than s
RowsBelow(s) == { c \in AllScored : RLess(c.score, s) }

\* the rows of the three tables scoring s or less
RowsUpTo(s) == { c \in AllScored : RLeq(c.score, s) }

\* min(n, all rows)
Smallest == IF n < RowCount THEN n ELSE RowCount

C12_TwoPhaseLosesNothing ==
    (Returned /\ PositiveTarget /\ n >= 0) =>
        /\ Len(result) = Smallest
        /\ \A p \in 1 .. Len(result) :
              /\ Cardinality(RowsBelow(result[p].score)) <= p - 1
              /\ Cardinality(RowsUpTo(result[p].score)) >= p
        /\ \A c \in AllScored :
              PlaceOf(c) = 0 =>
                  \A p \in 1 .. Len(result) : RLeq(result[p].score, c.score)

\* the pair tables have more rows than a category may hand on, the result
\* mixes categories, and a row left out scores strictly more than the last
\* one returned
C12_Witness ==
    /\ Returned /\ PositiveTarget /\ n >= 2
    /\ Len(series_table) > n
    /\ Len(result) = n
    /\ \E p, q \in 1 .. Len(result) : result[p].config # result[q].config
    /\ \E c \in AllScored :
          PlaceOf(c) = 0 /\ RLess(result[Len(result)].score, c.score)

(***************************************************************************)
(* C13.  Every entry find_best_resistor_config returns agrees with the     *)
(* tables it came from: a single entry lists one resistor, equal to its    *)
(* nominal; a series or parallel entry lists two resistors, the base       *)
(* nominals at the two indices of its row, in ascending order; and a       *)
(* series entry's nominal is the sum of the two resistors it lists.        *)
(***************************************************************************)
\* the base nominal at the first, second index of the row an entry came from
FirstNominal(entry) == base_table[TableOf(entry)[entry.row + 1].idx1 + 1].nom

SecondNominal(entry) == base_table[TableOf(entry)[entry.row + 1].idx2 + 1].nom

\* resistors holds a and b, in either order
ListsBoth(resistors, a, b) ==
    \/ REq(resistors[1], a) /\ REq(resistors[2], b)
    \/ REq(resistors[1], b) /\ REq(resistors[2], a)

EntryConsistent(entry) ==
    IF entry.config = "single"
    THEN /\ Len(entry.resistors) = 1
         /\ REq(entry.resistors[1], entry.nominal)
         /\ REq(entry.nominal, base_table[entry.row + 1].nom)
    ELSE /\ Len(entry.resistors) = 2
         /\ ListsBoth(entry.resistors, FirstNominal(entry), SecondNominal(entry))
         /\ RLeq(entry.resistors[1], entry.resistors[2])
         /\ entry.config = "series" =>
                REq(entry.nominal, RAdd(entry.resistors[1], entry.resistors[2]))

C13_EntriesAgreeWithTables ==
    Returned => \A p \in 1 .. Len(result) : EntryConsistent(result[p])

\* a single entry, a parallel entry, and a series entry whose row names the
\* larger resistor first, so that the listed pair had to be put in order
C13_Witness ==
    /\ Returned
    /\ \E p \in 1 .. Len(result) : result[p].config = "single"
    /\ \E p \in 1 .. Len(result) : result[p].config = "parallel"
    /\ \E p \in 1 .. Len(result) :
          /\ result[p].config = "series"
          /\ RLess(SecondNominal(result[p]), FirstNominal(result[p]))
          /\ REq(result[p].resistors[1], SecondNominal(result[p]))

====
